---- MODULE Spec2Model ----
(***************************************************************************)
(* State-machine model of video-quality.py: main() from argument parsing   *)
(* through tool verification, media scanning, argument verification, the   *)
(* FFmpeg command loop, CSV aggregation and the report.                    *)
(*                                                                         *)
(* Strings of the program are modelled by token sequences where the code   *)
(* takes them apart (paths, CSV names) and by TLA+ strings otherwise.      *)
(* An optional argument is <<>> when absent (Python None) and <<v>> when   *)
(* given.  Seconds are integers.                                           *)
(***************************************************************************)
EXTENDS Integers, Sequences, FiniteSets, TLC

\* ---------------------------------------------------------------- bounds
MaxFiles == 2
MaxRows == 1
MaxCells == 3
MaxCropVal == 3

\* ---------------------------------------------------------------- inputs
None == <<>>
Some(x) == <<x>>

\* the literal "-quality.csv" as one token of a file name
Q == "-quality.csv"

\* a path: directory, base name without extension (tokens), extension
Paths ==
    { [dir |-> "d1", stem |-> <<"a">>, ext |-> ".mp4"],
      [dir |-> "d2", stem |-> <<"a">>, ext |-> ".mp4"],
      [dir |-> "d1", stem |-> <<"b">>, ext |-> ".mkv"] }

FileLists == UNION { [1..n -> Paths] : n \in 1..MaxFiles }

Positions == { None, Some(0), Some(5) }
Durations == { None, Some(1), Some(10) }
RefLengths == { 12 }
RefSizes == { <<8, 8>> }
DistSizes == { <<8, 8>>, <<6, 6>> }

\* --crop: absent, a string the pattern does not match, or the four groups
NoMatch == <<"nomatch">>
CropArgs == { None, NoMatch, <<0, 0, 0, 0>>, <<1, 1, 1, 1>>, <<6, 6, 1, 1>> }

Models == { None, Some("model.json") }

\* CSV header rows and data cells the aggregator may meet
Headers ==
    { <<>>,
      <<"Frame", "vmaf">>,
      <<"Frame", "ssim", "vmaf">> }
Cells == { " 1 ", "x" }
Rows == UNION { [1..n -> Cells] : n \in 0..MaxCells }

\* ------------------------------------------------------------ pure helpers
\* os.path.splitext(os.path.basename(f))[0] + "-quality.csv"
CsvName(f) == Append(f.stem, Q)

\* f.replace("-quality.csv", "")
Label(csv) == SelectSeq(csv, LAMBDA t : t # Q)

\* str.strip()
Strip(c) == IF c = " 1 " THEN "1" ELSE c

\* float(q) succeeds
IsFloat(q) == q = "1"

\* float(q)
Float(q) == IF q = "1" THEN 1 ELSE 0

\* list.index(x): 0-based position of the first occurrence, -1 for ValueError
RECURSIVE IndexFrom(_, _, _)
IndexFrom(s, x, k) ==
    IF k > Len(s) THEN -1
    ELSE IF s[k] = x THEN k - 1
    ELSE IndexFrom(s, x, k + 1)

Index(s, x) == IndexFrom(s, x, 1)

\* qualityMetrics[key][1], the CSV column of a metric
CsvColumn(key) ==
    CASE key = "VMAF" -> "vmaf"
      [] key = "PSNR" -> "psnr"
      [] key = "SSIM" -> "ssim"
      [] key = "MS-SSIM" -> "ms_ssim"

\* the keys of qualityMetrics for the given flags
QualityMetrics(a) ==
    {"VMAF"} \cup (IF a.psnr THEN {"PSNR"} ELSE {})
             \cup (IF a.ssim THEN {"SSIM"} ELSE {})
             \cup (IF a.ms_ssim THEN {"MS-SSIM"} ELSE {})

\* ConvertCrop with the two limits exchanged
ConvertCropSwapped(crop, refW, refH) ==
    IF 4 * crop[3] <= refH /\ 4 * crop[4] <= refH
       /\ 4 * crop[1] <= refW /\ 4 * crop[2] <= refW
    THEN << refW - (crop[3] + crop[4]), refH - (crop[1] + crop[2]),
            crop[3], crop[1] >>
    ELSE crop

\* lines 159-179: the crop list after the optional margin conversion
ConvertCrop(crop, refW, refH) ==
    IF 4 * crop[3] <= refW /\ 4 * crop[4] <= refW
       /\ 4 * crop[1] <= refH /\ 4 * crop[2] <= refH
    THEN << refW - (crop[3] + crop[4]), refH - (crop[1] + crop[2]),
            crop[3], crop[1] >>
    ELSE crop

\* sorted(list): insertion into an ascending sequence
RECURSIVE Insert(_, _)
Insert(s, x) ==
    IF s = <<>> THEN <<x>>
    ELSE IF x <= Head(s) THEN <<x>> \o s
    ELSE <<Head(s)>> \o Insert(Tail(s), x)

RECURSIVE Sort(_)
Sort(s) == IF s = <<>> THEN <<>> ELSE Insert(Sort(Tail(s)), Head(s))

RECURSIVE Sum(_)
Sum(s) == IF s = <<>> THEN 0 ELSE Head(s) + Sum(Tail(s))

\* lines 338-341: sum and count (the mean is their quotient) and the
\* value at index int(0.05 * len)
Summary(vals) ==
    [ sum |-> Sum(vals), count |-> Len(vals),
      percentile5 |-> Sort(vals)[((5 * Len(vals)) \div 100) + 1] ]

\* ------------------------------------------------------------------ state
VARIABLES
    args,             \* the parsed command line
    pc,               \* position in main()
    i,                \* index of the running for loop
    existing,         \* names of the CSV files present in the directory
    refLength, refWidth, refHeight,
    distWidth, distHeight,
    cropString,       \* the four numbers of the crop filter
    qualityMetrics,   \* keys of the metrics dictionary
    vmafOut,          \* CSV name per input
    printed,          \* FFmpeg commands printed
    invoked,          \* FFmpeg commands handed to run()
    opened,           \* CSV names handed to open()
    columnNames,      \* header row of the CSV being read
    rowsRead,         \* data rows read from the CSV being read
    resultsDictionary,\* key -> [col, vals] for the CSV being read
    warnings,         \* <<input index, key>> of "Could not find" warnings
    perFile,          \* resultsDictionary stored per input index
    fileDictionary,   \* label -> resultsDictionary
    report,           \* label -> key -> Summary, as printed
    outcome,          \* why the run ended
    exitCode          \* process exit status, -1 while running

vars == << args, pc, i, existing, refLength, refWidth, refHeight,
           distWidth, distHeight, cropString, qualityMetrics, vmafOut,
           printed, invoked, opened, columnNames, rowsRead,
           resultsDictionary, warnings, perFile, fileDictionary, report,
           outcome, exitCode >>

env == << existing, refLength, refWidth, refHeight, distWidth, distHeight >>
plan == << cropString, qualityMetrics, vmafOut, printed, invoked >>
agg == << opened, columnNames, rowsRead, resultsDictionary, warnings,
          perFile, fileDictionary, report >>

CsvNames == { CsvName(p) : p \in Paths }

\* command lines: measuring runs with every combination of the validated
\* options; dry and measuring runs, with and without SSIM and a model file,
\* that pass validation; runs with --version, --help or --full-help
ArgSets ==
    [ version : {FALSE}, help : {FALSE}, full_help : {FALSE},
      dry_run : {FALSE}, file : FileLists,
      position : Positions, duration : Durations, crop : CropArgs,
      psnr : {FALSE}, ssim : {FALSE}, ms_ssim : {FALSE},
      model : Models ]
    \cup
    [ version : {FALSE}, help : {FALSE}, full_help : {FALSE},
      dry_run : BOOLEAN, file : FileLists,
      position : {Some(5)}, duration : {Some(1)}, crop : {<<1, 1, 1, 1>>},
      psnr : {FALSE}, ssim : BOOLEAN, ms_ssim : {FALSE},
      model : Models ]
    \cup
    [ version : BOOLEAN, help : BOOLEAN, full_help : BOOLEAN,
      dry_run : BOOLEAN, file : { << CHOOSE p \in Paths : TRUE >> },
      position : {None}, duration : {None}, crop : {None},
      psnr : {FALSE}, ssim : {FALSE}, ms_ssim : {FALSE},
      model : {None} ]

Init ==
    /\ args \in ArgSets
    /\ pc = "peripheral"
    /\ i = 0
    /\ existing \in SUBSET CsvNames
    /\ refLength = 0 /\ refWidth = 0 /\ refHeight = 0
    /\ distWidth = <<>> /\ distHeight = <<>>
    /\ cropString = <<>>
    /\ qualityMetrics = {}
    /\ vmafOut = <<>>
    /\ printed = <<>>
    /\ invoked = <<>>
    /\ opened = <<>>
    /\ columnNames = <<>>
    /\ rowsRead = 0
    /\ resultsDictionary = <<>>
    /\ warnings = {}
    /\ perFile = <<>>
    /\ fileDictionary = <<>>
    /\ report = <<>>
    /\ outcome = "running"
    /\ exitCode = -1

\* exit(): status 0; exit("message"): status 1; uncaught exception: status 1
Exit(why, code) ==
    /\ pc' = "exited"
    /\ outcome' = why
    /\ exitCode' = code

Goto(l) ==
    /\ pc' = l
    /\ UNCHANGED << outcome, exitCode >>

\* ---------------------------------------------------------------- actions
\* lines 82-97
Peripheral ==
    /\ pc = "peripheral"
    /\ IF args.version THEN Exit("version", 0)
       ELSE IF args.help THEN Exit("help", 0)
       ELSE IF args.full_help THEN Exit("full_help", 0)
       ELSE Goto("tools")
    /\ UNCHANGED << args, i, env, plan, agg >>

\* lines 109-114, one tool per step
VerifyTool ==
    /\ pc = "tools"
    /\ \E ok \in BOOLEAN :
         IF ~ok THEN Exit("MissingTool", 1) /\ i' = i
         ELSE IF i + 1 < 3 THEN Goto("tools") /\ i' = i + 1
         ELSE Goto("scanReference") /\ i' = 0
    /\ UNCHANGED << args, env, plan, agg >>

\* lines 123-124
ScanReference ==
    /\ pc = "scanReference"
    /\ \E ok \in BOOLEAN :
         IF ~ok THEN Exit("FileNotFound", 1) ELSE Goto("scanFile")
    /\ UNCHANGED << args, i, env, plan, agg >>

\* lines 125-127, one file per step
ScanFile ==
    /\ pc = "scanFile"
    /\ \E ok \in BOOLEAN :
         IF ~ok THEN Exit("FileNotFound", 1) /\ i' = i
         ELSE IF i + 1 < Len(args.file) THEN Goto("scanFile") /\ i' = i + 1
         ELSE Goto("probeReference") /\ i' = 0
    /\ UNCHANGED << args, env, plan, agg >>

\* lines 130-132
ProbeReference ==
    /\ pc = "probeReference"
    /\ refLength' \in RefLengths
    /\ \E s \in RefSizes : refWidth' = s[1] /\ refHeight' = s[2]
    /\ Goto("probeFile")
    /\ UNCHANGED << args, i, existing, distWidth, distHeight, plan, agg >>

\* lines 139-142, one file per step
ProbeFile ==
    /\ pc = "probeFile"
    /\ \E s \in DistSizes :
         /\ distWidth' = Append(distWidth, s[1])
         /\ distHeight' = Append(distHeight, s[2])
    /\ IF i + 1 < Len(args.file) THEN Goto("probeFile") /\ i' = i + 1
       ELSE Goto("range") /\ i' = 0
    /\ UNCHANGED << args, existing, refLength, refWidth, refHeight,
                    plan, agg >>

\* lines 151-154: 0 < position < refLength - duration, evaluated left to
\* right; a comparison or subtraction with None raises TypeError
CheckRange ==
    /\ pc = "range"
    /\ IF args.position = None THEN Exit("TypeError", 1)
       ELSE IF ~(0 < args.position[1]) THEN Exit("RangeError", 0)
       ELSE IF args.duration = None THEN Exit("TypeError", 1)
       ELSE IF ~(args.position[1] < refLength - args.duration[1])
            THEN Exit("RangeError", 0)
       ELSE Goto("crop")
    /\ UNCHANGED << args, i, env, plan, agg >>

\* lines 157-187: the crop filter geometry and the size check
ReconcileCrop ==
    /\ pc = "crop"
    /\ IF args.crop = None
       THEN /\ cropString' = << refWidth, refHeight, 0, 0 >>
            /\ Goto("model")
       ELSE IF args.crop = NoMatch
       THEN /\ cropString' = << refWidth, refHeight, 0, 0 >>
            /\ Exit("InvalidGeometry", 1)
       ELSE LET crop == ConvertCrop(args.crop, refWidth, refHeight) IN
            /\ cropString' = crop
            /\ IF \E k \in 1..Len(distWidth) :
                    crop[1] # distWidth[k] \/ crop[2] # distHeight[k]
               THEN Exit("CropMismatch", 0)
               ELSE Goto("model")
    /\ UNCHANGED << args, i, env, qualityMetrics, vmafOut, printed,
                    invoked, agg >>

\* lines 190-202: the model file, then the metrics dictionary
VerifyModel ==
    /\ pc = "model"
    /\ \E ok \in BOOLEAN :
         IF args.model # None /\ ~ok
         THEN Exit("ModelNotFound", 1) /\ UNCHANGED qualityMetrics
         ELSE Goto("output") /\ qualityMetrics' = QualityMetrics(args)
    /\ UNCHANGED << args, i, env, cropString, vmafOut, printed, invoked,
                    agg >>

\* VerifyOutput with the existence test made for the first input only
VerifyOutputLate ==
    /\ pc = "output"
    /\ LET out == CsvName(args.file[i + 1]) IN
         /\ vmafOut' = Append(vmafOut, out)
         /\ IF ~args.dry_run /\ out \in existing /\ i = 0
            THEN Exit("OutputExists", 1) /\ i' = i
            ELSE IF i + 1 < Len(args.file)
            THEN Goto("output") /\ i' = i + 1
            ELSE Goto("command") /\ i' = 0
    /\ UNCHANGED << args, env, cropString, qualityMetrics, printed,
                    invoked, agg >>

\* lines 206-209, one file per step
VerifyOutput ==
    /\ pc = "output"
    /\ LET out == CsvName(args.file[i + 1]) IN
         /\ vmafOut' = Append(vmafOut, out)
         /\ IF ~args.dry_run /\ out \in existing
            THEN Exit("OutputExists", 1) /\ i' = i
            ELSE IF i + 1 < Len(args.file)
            THEN Goto("output") /\ i' = i + 1
            ELSE Goto("command") /\ i' = 0
    /\ UNCHANGED << args, env, cropString, qualityMetrics, printed,
                    invoked, agg >>

\* lines 222-272: the FFmpeg command of one input
Command(k) ==
    [ distorted |-> args.file[k],
      ss        |-> IF args.position # None /\ args.position[1] # 0
                    THEN args.position ELSE None,
      t         |-> IF args.duration # None /\ args.duration[1] # 0
                    THEN args.duration ELSE None,
      crop      |-> cropString,
      log_path  |-> vmafOut[k],
      model     |-> args.model,
      features  |-> qualityMetrics \ {"VMAF"} ]

\* lines 217-283, one file per step: the command is printed; run() is
\* commented out, for a dry run and otherwise
PrintCommand ==
    /\ pc = "command"
    /\ printed' = Append(printed, Command(i + 1))
    /\ IF i + 1 < Len(args.file) THEN Goto("command") /\ i' = i + 1
       ELSE Goto("open") /\ i' = 0
    /\ UNCHANGED << args, env, cropString, qualityMetrics, vmafOut,
                    invoked, agg >>

\* lines 289-296: open() raises FileNotFoundError on a missing file
OpenCsv ==
    /\ pc = "open"
    /\ LET f == vmafOut[i + 1] IN
         /\ opened' = Append(opened, f)
         /\ IF f \in existing
            THEN /\ Goto("header")
                 /\ resultsDictionary' =
                      [ key \in qualityMetrics |-> [col |-> 0, vals |-> <<>>] ]
            ELSE /\ Exit("FileNotFoundError", 1)
                 /\ UNCHANGED resultsDictionary
    /\ rowsRead' = 0
    /\ UNCHANGED << args, i, env, plan, columnNames, warnings, perFile,
                    fileDictionary, report >>

\* ReadHeader without the try/except around index(): ValueError ends the run
ReadHeaderUnguarded ==
    /\ pc = "header"
    /\ \E h \in Headers :
         LET found == { key \in DOMAIN resultsDictionary :
                          Index(h, CsvColumn(key)) # -1 } IN
         /\ columnNames' = h
         /\ UNCHANGED warnings
         /\ IF found # DOMAIN resultsDictionary
            THEN Exit("ValueError", 1) /\ UNCHANGED resultsDictionary
            ELSE /\ Goto("rows")
                 /\ resultsDictionary' =
                      [ key \in found |->
                          [col |-> Index(h, CsvColumn(key)), vals |-> <<>>] ]
    /\ UNCHANGED << args, i, env, plan, opened, rowsRead, perFile,
                    fileDictionary, report >>

\* lines 300-316: the header row (none in an empty file) and the columns
ReadHeader ==
    /\ pc = "header"
    /\ \E h \in Headers :
         LET found == { key \in DOMAIN resultsDictionary :
                          Index(h, CsvColumn(key)) # -1 } IN
         /\ columnNames' = h
         /\ warnings' = warnings \cup
              { << i + 1, key >> : key \in DOMAIN resultsDictionary \ found }
         /\ resultsDictionary' =
              [ key \in found |->
                  [col |-> Index(h, CsvColumn(key)), vals |-> <<>>] ]
    /\ Goto("rows")
    /\ UNCHANGED << args, i, env, plan, opened, rowsRead, perFile,
                    fileDictionary, report >>

\* lines 319-326: one data row; row[col] raises IndexError on a short row
ReadRow ==
    /\ pc = "rows"
    /\ rowsRead < MaxRows
    /\ \E row \in Rows :
         IF \E key \in DOMAIN resultsDictionary :
                resultsDictionary[key].col >= Len(row)
         THEN Exit("IndexError", 1) /\ UNCHANGED resultsDictionary
         ELSE /\ Goto("rows")
              /\ resultsDictionary' =
                   [ key \in DOMAIN resultsDictionary |->
                       LET q == Strip(row[resultsDictionary[key].col + 1]) IN
                       IF IsFloat(q)
                       THEN [ resultsDictionary[key] EXCEPT
                                !.vals = Append(@, Float(q)) ]
                       ELSE resultsDictionary[key] ]
    /\ rowsRead' = rowsRead + 1
    /\ UNCHANGED << args, i, env, plan, opened, columnNames, warnings,
                    perFile, fileDictionary, report >>

\* line 329 at the end of the file, then the next CSV
StoreResults ==
    /\ pc = "rows"
    /\ LET l == Label(vmafOut[i + 1]) IN
         fileDictionary' =
           [ k \in DOMAIN fileDictionary \cup {l} |->
               IF k = l THEN resultsDictionary ELSE fileDictionary[k] ]
    /\ perFile' = Append(perFile,
                    [header |-> columnNames, results |-> resultsDictionary])
    /\ IF i + 1 < Len(vmafOut) THEN Goto("open") /\ i' = i + 1
       ELSE Goto("report") /\ i' = 0
    /\ UNCHANGED << args, env, plan, opened, columnNames, rowsRead,
                    resultsDictionary, warnings, report >>

\* lines 333-345: one block per label, one line per metric with samples
PrintReport ==
    /\ pc = "report"
    /\ report' =
         [ l \in DOMAIN fileDictionary |->
             [ key \in { k \in DOMAIN fileDictionary[l] :
                           Len(fileDictionary[l][k].vals) # 0 } |->
                 Summary(fileDictionary[l][key].vals) ] ]
    /\ fileDictionary' =
         [ l \in DOMAIN fileDictionary |->
             [ key \in DOMAIN fileDictionary[l] |->
                 [ fileDictionary[l][key] EXCEPT !.vals = Sort(@) ] ] ]
    /\ Goto("final")
    /\ UNCHANGED << args, i, env, plan, opened, columnNames, rowsRead,
                    resultsDictionary, warnings, perFile >>

\* lines 350-351, then the end of main()
Finish ==
    /\ pc = "final"
    /\ IF args.dry_run THEN Exit("dry_run", 0) ELSE Exit("normal", 0)
    /\ UNCHANGED << args, i, env, plan, agg >>

Next ==
    \/ Peripheral
    \/ VerifyTool
    \/ ScanReference
    \/ ScanFile
    \/ ProbeReference
    \/ ProbeFile
    \/ CheckRange
    \/ ReconcileCrop
    \/ VerifyModel
    \/ VerifyOutput
    \/ PrintCommand
    \/ OpenCsv
    \/ ReadHeader
    \/ ReadRow
    \/ StoreResults
    \/ PrintReport
    \/ Finish

Spec == Init /\ [][Next]_vars

\* ------------------------------------------- the crop conversion alone
CropTuples == [1..4 -> 0..MaxCropVal]
CropRefDims == { 4, 8, 10, 13 }
CropDistSizes == { <<8, 8>>, <<6, 2>> }

\* the state at line 156 of a run that passed the checks before it, for
\* every crop of four numbers and every reference size
InitCrop ==
    /\ args \in [ version : {FALSE}, help : {FALSE}, full_help : {FALSE},
                  dry_run : {FALSE},
                  file : { << CHOOSE p \in Paths : TRUE >> },
                  position : {Some(5)}, duration : {Some(1)},
                  crop : CropTuples,
                  psnr : {FALSE}, ssim : {FALSE}, ms_ssim : {FALSE},
                  model : {None} ]
    /\ pc = "crop"
    /\ i = 0
    /\ existing = {}
    /\ refLength = 12
    /\ refWidth \in CropRefDims /\ refHeight \in CropRefDims
    /\ \E s \in CropDistSizes : distWidth = <<s[1]>> /\ distHeight = <<s[2]>>
    /\ cropString = <<>>
    /\ qualityMetrics = {}
    /\ vmafOut = <<>>
    /\ printed = <<>>
    /\ invoked = <<>>
    /\ opened = <<>>
    /\ columnNames = <<>>
    /\ rowsRead = 0
    /\ resultsDictionary = <<>>
    /\ warnings = {}
    /\ perFile = <<>>
    /\ fileDictionary = <<>>
    /\ report = <<>>
    /\ outcome = "running"
    /\ exitCode = -1

NextCrop == ReconcileCrop

SpecCrop == InitCrop /\ [][NextCrop]_vars

\* ------------------------------------------------------------ properties
Range(s) == { s[k] : k \in 1..Len(s) }

Aborted(why) == pc = "exited" /\ outcome = why

\* the range check passed and the run went on
WindowValid ==
    /\ args.position # None /\ args.duration # None
    /\ 0 < args.position[1]
    /\ args.position[1] < refLength - args.duration[1]

\* C1: in a run that is not a dry run, by the time the aggregator opens a
\* CSV every printed command has been executed once, in input order, and
\* the CSV opened is the log of one of those executions.
C1_PlansExecutedOnce ==
    (~args.dry_run /\ opened # <<>>) =>
        /\ invoked = printed
        /\ Len(invoked) = Len(args.file)
        /\ \A k \in 1..Len(opened) :
             \E j \in 1..Len(invoked) : invoked[j].log_path = opened[k]

\* C2: a dry run prints the commands and exits; it executes nothing and
\* opens no "-quality.csv" file.
C2_DryRunOnlyPrints ==
    args.dry_run =>
        /\ invoked = <<>>
        /\ opened = <<>>
        /\ fileDictionary = <<>>
        /\ (pc = "exited" /\ printed # <<>> => outcome = "dry_run")

\* C3: the run ends at the range check exactly when position and duration
\* are both given and 0 < position < refLength - duration is false, with no
\* command built; without position and duration the run passes the check.
C3_RangeAbortExactly ==
    LET endedAtRange == pc = "exited" /\ outcome \in {"RangeError", "TypeError"}
        supplied == args.position # None /\ args.duration # None
    IN  /\ endedAtRange => supplied /\ ~WindowValid /\ printed = <<>>
        /\ (args.position = None /\ args.duration = None) => ~endedAtRange
        /\ (supplied /\ ~WindowValid) =>
              pc \in {"peripheral", "tools", "scanReference", "scanFile",
                      "probeReference", "probeFile", "range", "exited"}

\* C4: whatever the origin of the crop rectangle (direct, from margins, or
\* the full reference frame when --crop is absent), once it is resolved a
\* distorted video of another size ends the run with CropMismatch and no
\* command is built or executed.
C4_MismatchAlwaysAborts ==
    ( /\ cropString # <<>>
      /\ args.crop # NoMatch
      /\ \E k \in 1..Len(distWidth) :
           << distWidth[k], distHeight[k] >> # << cropString[1], cropString[2] >> )
    => /\ Aborted("CropMismatch")
       /\ printed = <<>>
       /\ invoked = <<>>

\* C5: the test for existing output files is made for every input before
\* the first command is built: a run that is not a dry run and has built or
\* printed a command has no CSV name of any input present; a run ended by
\* OutputExists is not a dry run and built no command; a dry run never ends
\* by OutputExists.
C5_OutputCheckUpFront ==
    /\ (~args.dry_run /\ (pc \in {"command", "open"} \/ printed # <<>>)) =>
          \A k \in 1..Len(args.file) : CsvName(args.file[k]) \notin existing
    /\ Aborted("OutputExists") =>
          /\ ~args.dry_run
          /\ printed = <<>> /\ invoked = <<>> /\ opened = <<>>
          /\ vmafOut[Len(vmafOut)] \in existing
    /\ args.dry_run => outcome # "OutputExists"

\* the last of two inputs has its CSV present, the first has not, and the
\* run ended with no command built
C5_Witness ==
    /\ Aborted("OutputExists")
    /\ Len(vmafOut) = 2
    /\ vmafOut[1] \notin existing
    /\ printed = <<>>

ValidationFailures ==
    { "MissingTool", "FileNotFound", "RangeError", "InvalidGeometry",
      "CropMismatch", "ModelNotFound", "OutputExists" }

\* C6: a run ended by a validation failure has a non-zero exit status, and
\* status zero is only that of normal, help or version completion.
C6_FailuresExitNonZero ==
    pc = "exited" =>
        /\ outcome \in ValidationFailures => exitCode # 0
        /\ exitCode = 0 =>
             outcome \in {"normal", "dry_run", "version", "help", "full_help"}

\* C7: for every reference size and every four numbers a:b:c:d the crop
\* filter is the margin conversion {refWidth-(c+d), refHeight-(a+b), c, a}
\* when c,d <= refWidth/4 and a,b <= refHeight/4, with width+c+d = refWidth,
\* height+a+b = refHeight and no negative field, and a:b:c:d otherwise.
C7_CropMatchesReference ==
    (pc # "crop" /\ args.crop # None /\ args.crop # NoMatch) =>
        LET a == args.crop[1]
            b == args.crop[2]
            c == args.crop[3]
            d == args.crop[4]
            margins == /\ c <= refWidth \div 4 /\ d <= refWidth \div 4
                       /\ a <= refHeight \div 4 /\ b <= refHeight \div 4
        IN  IF margins
            THEN /\ cropString[3] = c /\ cropString[4] = a
                 /\ cropString[1] + c + d = refWidth
                 /\ cropString[2] + a + b = refHeight
                 /\ \A k \in 1..4 : cropString[k] >= 0
            ELSE cropString = << a, b, c, d >>

\* margins with different limits for the two axes, converted
C7_Witness ==
    /\ pc = "model"
    /\ args.crop = << 1, 1, 2, 2 >>
    /\ refWidth = 10 /\ refHeight = 4
    /\ cropString = << 6, 2, 2, 1 >>

\* C8: a metric whose column is missing from one CSV header is dropped, with
\* a warning, from that CSV's results only: the results stored for each
\* input are those of exactly the requested metrics whose column is in that
\* input's own header, the warnings are exactly the dropped ones, the entry
\* kept under a label is the one stored last for it, and reading a header
\* never ends the run.
C8_MissingColumnLocal ==
    /\ [] ( /\ \A k \in 1..Len(perFile) :
                 /\ DOMAIN perFile[k].results =
                      { m \in QualityMetrics(args) :
                          CsvColumn(m) \in Range(perFile[k].header) }
                 /\ \A m \in QualityMetrics(args) :
                      << k, m >> \in warnings
                        <=> m \notin DOMAIN perFile[k].results
                 /\ (\A j \in (k + 1)..Len(perFile) :
                        Label(vmafOut[j]) # Label(vmafOut[k]))
                    => DOMAIN fileDictionary[Label(vmafOut[k])]
                         = DOMAIN perFile[k].results
            /\ \A l \in DOMAIN report :
                 DOMAIN report[l] =
                   { m \in DOMAIN fileDictionary[l] :
                       Len(fileDictionary[l][m].vals) > 0 } )
    /\ [][pc = "header" => pc' = "rows"]_vars

\* two CSVs were read with SSIM requested: the first lacks the ssim column
\* and keeps VMAF with a sample, the second has both; the report is printed
C8_Witness ==
    /\ Aborted("dry_run")
    /\ Len(perFile) = 2
    /\ Label(vmafOut[1]) # Label(vmafOut[2])
    /\ DOMAIN perFile[1].results = {"VMAF"}
    /\ << 1, "SSIM" >> \in warnings
    /\ DOMAIN perFile[2].results = {"VMAF", "SSIM"}
    /\ "VMAF" \in DOMAIN report[Label(vmafOut[1])]

\* C9: distinct inputs have distinct CSV names and distinct report labels,
\* and the report has one entry per input.
C9_DistinctOutputs ==
    /\ \A j, k \in 1..Len(vmafOut) :
         (j # k /\ args.file[j] # args.file[k]) =>
            /\ vmafOut[j] # vmafOut[k]
            /\ Label(vmafOut[j]) # Label(vmafOut[k])
    /\ pc = "final" =>
         Cardinality(DOMAIN report) = Cardinality(Range(args.file))

\* C10: no data row, whatever its number of cells, ends the run: after a
\* row is read the reader goes on with the next one.
C10_MalformedRowsTolerated ==
    [][pc = "rows" => pc' # "exited"]_vars

====
